---- MODULE Spec2Model ----
(***************************************************************************)
(* Job orchestration of the Propter-Optimis app: the analyses and exports  *)
(* tables and the services that write them (AnalyticsService,              *)
(* ExportService, VideoService), and the browser client around them: the   *)
(* upload form, local storage, the auth state and the routes.  Every       *)
(* awaited call is one step; a call can succeed or come back with an       *)
(* error, and the callers treat the error exactly as the source does.      *)
(***************************************************************************)
EXTENDS Integers, Sequences, FiniteSets, TLC

----------------------------------------------------------------------------
(* Bounds of the model *)

MaxVideos == 2
MaxAnalyses == 2
MaxExports == 1
MaxSubmits == 2
MaxAnnotationCalls == 2
MaxAuthCalls == 3
MaxHistory == 2

----------------------------------------------------------------------------
(* Values *)

VideoIds == 1..MaxVideos
AnalysisIds == 1..MaxAnalyses
ExportIds == 1..MaxExports

\* An optional column or field: <<>> is null/undefined, <<x>> is the value x.
Null == <<>>
Some(x) == <<x>>

AnalysisStatus == {"pending", "processing", "completed", "failed", "cancelled"}
ExportStatus == {"pending", "generating", "completed", "failed"}
ExportType == {"video_clips", "pdf_report", "csv_data", "full_package"}

\* The sections of the object literal that the completion callback stores.
mockResults == {"events", "statistics", "heatmap"}
mockInsights == "Analysis Summary"
mockProcessingTime == 15

\* The sections the spec's structural contract requires of a result; all four
\* are mandatory members of the OpenStarLabResults type.
RequiredSections ==
  {"events", "tactical_analysis", "player_evaluations", "confidence_scores"}

----------------------------------------------------------------------------
(* State *)

VARIABLES
  videos,            \* table videos: id -> row
  analyses,          \* table analyses: id -> row
  exports,           \* table exports: id -> row
  nextVideoId,       \* ids are generated by the database and never reused
  nextAnalysisId,
  nextExportId,
  awaitingTrigger,   \* analysis ids whose createAnalysis awaits triggerProcessing
  analysisTimers,    \* analysis ids with a scheduled completion callback
  awaitingProcess,   \* export ids whose createExport awaits processExport
  exportTimers,      \* export ids with a scheduled completion callback
  returned,          \* what the last step returned to its caller
  IS_LOCAL_MODE,     \* import.meta.env.VITE_AUTH_MODE === 'local', read once at load
  selectedFile,      \* VideoUpload: useState<File | null>
  formData,          \* VideoUpload: title and analysisIntent of the form
  uploadProgress,    \* VideoUpload: { progress, status }
  submits,           \* VideoUpload: the handleSubmit calls, in the order they began
  annotationCalls,   \* the addManualAnnotation calls, in the order they began
  downloads,         \* the last downloadExport call on each export that got past its test
  localStorage,      \* window.localStorage: key -> stored string or null
  authCalls,         \* the calls of LocalAuthService, in the order they began
  user,              \* useAuthProvider: useState<AppUser | null>
  loading,           \* useAuthProvider: useState(false)
  mounted,           \* whether the effect of useAuthProvider has run since the page load
  location,          \* the path the router is at
  history,           \* the entries of the browser history below the current one
  rendered           \* the element on the screen

\* The tables, the scheduled work and the last return value.
storeVars == <<videos, analyses, exports, nextVideoId, nextAnalysisId, nextExportId,
               awaitingTrigger, analysisTimers, awaitingProcess, exportTimers, returned>>

\* The state of the browser client: configuration, components, local storage.
modeVars == <<IS_LOCAL_MODE>>
uploadVars == <<selectedFile, formData, uploadProgress, submits>>
annotationVars == <<annotationCalls>>
downloadVars == <<downloads>>
authVars == <<localStorage, authCalls>>
routeVars == <<user, loading, mounted, location, history, rendered>>
clientVars == <<modeVars, uploadVars, annotationVars, downloadVars, authVars, routeVars>>

\* What the steps of one part of the client leave alone in the others.
uploadRest == <<modeVars, annotationVars, downloadVars, authVars, routeVars>>
annotationRest == <<modeVars, uploadVars, downloadVars, authVars, routeVars>>
downloadRest == <<modeVars, uploadVars, annotationVars, authVars, routeVars>>
authRest == <<modeVars, uploadVars, annotationVars, downloadVars, routeVars>>
routeRest == <<modeVars, uploadVars, annotationVars, downloadVars, authCalls>>

vars == <<storeVars, clientVars>>

\* { success: true, <job or video id>? } and { success: false, error }; a step
\* that returns nothing to a caller (a timer callback) counts as Success(0).
Success(id) == [success |-> TRUE, id |-> id]
Failure == [success |-> FALSE, id |-> 0]

\* A row as the insert of createAnalysis leaves it: the columns it does not
\* name take their defaults (progress_percentage DEFAULT 0, the rest null).
\* manual_annotations is the column addManualAnnotation reads and writes; null
\* and the empty list are both <<>> (`analysis.manual_annotations || []`).
NewAnalysis(videoId) ==
  [video_id |-> videoId,
   status |-> "pending",
   openstarlab_results |-> Null,
   ai_insights |-> Null,
   processing_time |-> Null,
   progress_percentage |-> 0,
   started_at |-> Null,
   completed_at |-> Null,
   error_message |-> Null,
   manual_annotations |-> <<>>]

\* new Date() of the client when it inserts an export: time is counted in
\* the exports inserted so far, so that a later insert carries a later time.
Now == nextExportId

\* A row as the insert of createExport leaves it.  The Export type has no
\* column for error information.
NewExport(analysisId, exportType, now) ==
  [analysis_id |-> analysisId,
   export_type |-> exportType,
   status |-> "pending",
   file_path |-> Null,
   created_at |-> now]

\* A row as the insert of uploadVideoSupabase leaves it.
NewVideo == [status |-> "processing"]

\* The keys the client keeps in local storage, and a storage without them.
StorageKeys == {"access_token", "refresh_token", "user", "dev-user"}
EmptyStorage == [key \in StorageKeys |-> Null]

\* What a route shows: a page, a <Navigate to=... replace />, or <PageLoader />.
Page(path) == [kind |-> "page", path |-> path]
Navigate(to) == [kind |-> "navigate", path |-> to]
PageLoader == [kind |-> "loader", path |-> ""]

\* The form of VideoUpload as useState initialises it.
EmptyForm == [title |-> "", analysisIntent |-> ""]

\* The components as they are mounted.
InitComponents ==
  /\ selectedFile = Null
  /\ formData = EmptyForm
  /\ uploadProgress = [progress |-> 0, status |-> "idle"]
  /\ submits = <<>>
  /\ annotationCalls = <<>>
  /\ downloads = <<>>
  /\ localStorage = EmptyStorage
  /\ authCalls = <<>>
  /\ user = Null
  /\ loading = FALSE
  /\ mounted = FALSE
  /\ location = "/"
  /\ history = <<>>
  /\ rendered = Navigate("/dashboard")

\* The client as it is loaded with VITE_AUTH_MODE unset: BaaS mode.
InitClient ==
  /\ IS_LOCAL_MODE = FALSE
  /\ InitComponents

\* The tables of a new project and no work in flight.
InitStore ==
  /\ videos = <<>>
  /\ analyses = <<>>
  /\ exports = <<>>
  /\ nextVideoId = 1
  /\ nextAnalysisId = 1
  /\ nextExportId = 1
  /\ awaitingTrigger = {}
  /\ analysisTimers = {}
  /\ awaitingProcess = {}
  /\ exportTimers = {}
  /\ returned = Success(0)

Init == InitClient /\ InitStore

----------------------------------------------------------------------------
(* Database helpers *)

\* .update(updates).eq('id', id): the named columns are overwritten, the
\* others kept; no row with that id means zero rows updated, not an error.
ApplyUpdate(table, id, updates) ==
  IF id \in DOMAIN table
    THEN [table EXCEPT ![id] =
            [f \in DOMAIN @ |-> IF f \in DOMAIN updates THEN updates[f] ELSE @[f]]]
    ELSE table

\* CHECK (progress_percentage >= 0 AND progress_percentage <= 100)
ProgressCheck(updates) ==
  "progress_percentage" \in DOMAIN updates
    => updates.progress_percentage \in 0..100

\* The rows of `table` without those whose id is in `ids`.
DeleteRows(table, ids) == [i \in DOMAIN table \ ids |-> table[i]]

----------------------------------------------------------------------------
(* AnalyticsService *)

\* updateAnalysis(id, updates): the table after the call.  dbOk is whether the
\* database accepted the request; a violated CHECK constraint is an error too.
\* The function writes whatever columns it is handed: it reads neither the
\* current status nor the current progress.
updateAnalysis(id, updates, dbOk) ==
  IF dbOk /\ ProgressCheck(updates) THEN ApplyUpdate(analyses, id, updates) ELSE analyses

\* What updateAnalysis returns: { success: true } or { success: false, error }.
updateAnalysisSucceeds(updates, dbOk) == dbOk /\ ProgressCheck(updates)

\* createAnalysis as it would be if it went on to triggerProcessing after an
\* insert that returned an error.
createAnalysisInsert_TriggersOnError(videoId, dbOk) ==
  /\ nextAnalysisId <= MaxAnalyses
  /\ IF dbOk /\ videoId \in DOMAIN videos
       THEN /\ analyses' = analyses @@ (nextAnalysisId :> NewAnalysis(videoId))
            /\ nextAnalysisId' = nextAnalysisId + 1
            /\ awaitingTrigger' = awaitingTrigger \cup {nextAnalysisId}
            /\ returned' = Success(0)
       ELSE /\ UNCHANGED <<analyses, nextAnalysisId>>
            /\ awaitingTrigger' = awaitingTrigger \cup {nextAnalysisId}
            /\ returned' = Failure
  /\ UNCHANGED <<videos, exports, nextVideoId, nextExportId, analysisTimers,
                 awaitingProcess, exportTimers>>

\* createAnalysis up to its first await: the insert.  The only conditions on
\* the insert are the database's own: video_id REFERENCES videos(id).  On an
\* error the call returns { success: false } and nothing else happens.
createAnalysisInsert(videoId, dbOk) ==
  /\ nextAnalysisId <= MaxAnalyses
  /\ IF dbOk /\ videoId \in DOMAIN videos
       THEN /\ analyses' = analyses @@ (nextAnalysisId :> NewAnalysis(videoId))
            /\ nextAnalysisId' = nextAnalysisId + 1
            /\ awaitingTrigger' = awaitingTrigger \cup {nextAnalysisId}
            /\ returned' = Success(0)
       ELSE /\ UNCHANGED <<analyses, nextAnalysisId, awaitingTrigger>>
            /\ returned' = Failure
  /\ UNCHANGED <<videos, exports, nextVideoId, nextExportId, analysisTimers,
                 awaitingProcess, exportTimers>>

\* createAnalysis called on its own.
CreateAnalysis(videoId, dbOk) ==
  /\ createAnalysisInsert(videoId, dbOk)
  /\ UNCHANGED clientVars

\* triggerProcessing as it would be if it awaited the simulated run instead of
\* scheduling it: the completion is written before createAnalysis returns.
triggerProcessing_AwaitsCompletion(analysisId, dbOk) ==
  /\ analysisId \in awaitingTrigger
  /\ analyses' = updateAnalysis(analysisId,
                    [status |-> "completed",
                     openstarlab_results |-> Some(mockResults),
                     ai_insights |-> Some(mockInsights),
                     processing_time |-> Some(mockProcessingTime)], dbOk)
  /\ awaitingTrigger' = awaitingTrigger \ {analysisId}
  /\ returned' = Success(analysisId)
  /\ UNCHANGED <<videos, exports, nextVideoId, nextAnalysisId, nextExportId,
                 analysisTimers, awaitingProcess, exportTimers>>

\* triggerProcessing(analysisId), and the return of createAnalysis after it.
\* The result of the status write is not looked at, and updateAnalysis never
\* throws (it has its own try/catch), so the catch branch of triggerProcessing
\* is not reachable: the timer is scheduled whatever the write did.
triggerProcessing(analysisId, dbOk) ==
  /\ analysisId \in awaitingTrigger
  /\ analyses' = updateAnalysis(analysisId, [status |-> "processing"], dbOk)
  /\ awaitingTrigger' = awaitingTrigger \ {analysisId}
  /\ analysisTimers' = analysisTimers \cup {analysisId}
  /\ returned' = Success(analysisId)
  /\ UNCHANGED <<videos, exports, nextVideoId, nextAnalysisId, nextExportId,
                 awaitingProcess, exportTimers>>

\* The second half of a createAnalysis that was called on its own.
TriggerProcessing(analysisId, dbOk) ==
  /\ triggerProcessing(analysisId, dbOk)
  /\ UNCHANGED clientVars

\* The columns the setTimeout callback writes.
CompletionUpdate ==
  [status |-> "completed",
   openstarlab_results |-> Some(mockResults),
   ai_insights |-> Some(mockInsights),
   processing_time |-> Some(mockProcessingTime)]

\* The setTimeout callback of triggerProcessing: one unconditional write; its
\* result is not looked at and the timer fires once.
CompletionCallback(analysisId, dbOk) ==
  /\ analysisId \in analysisTimers
  /\ analyses' = updateAnalysis(analysisId, CompletionUpdate, dbOk)
  /\ analysisTimers' = analysisTimers \ {analysisId}
  /\ returned' = Success(0)
  /\ UNCHANGED <<videos, exports, nextVideoId, nextAnalysisId, nextExportId,
                 awaitingTrigger, awaitingProcess, exportTimers>>
  /\ UNCHANGED clientVars

\* The updates a direct caller of the public updateAnalysis hands in
\* (Partial<Analysis>): here a status.
UpdateInputs == {[status |-> s] : s \in AnalysisStatus}

\* Progress reports handed to updateAnalysis: two checkpoints and a value the
\* CHECK constraint of the column refuses.
ProgressInputs == {[progress_percentage |-> p] : p \in {40, 90, 101}}

\* A direct call of the public updateAnalysis(id, updates).
UpdateAnalysis(analysisId, updates, dbOk) ==
  /\ analyses' = updateAnalysis(analysisId, updates, dbOk)
  /\ returned' = IF updateAnalysisSucceeds(updates, dbOk) THEN Success(0) ELSE Failure
  /\ UNCHANGED <<videos, exports, nextVideoId, nextAnalysisId, nextExportId,
                 awaitingTrigger, analysisTimers, awaitingProcess, exportTimers>>
  /\ UNCHANGED clientVars

----------------------------------------------------------------------------
(* ExportService *)

\* getFileNameForType(exportType), without the date it embeds.
getFileNameForType(exportType) ==
  CASE exportType = "video_clips" -> "highlights.mp4"
    [] exportType = "pdf_report" -> "analysis-report.pdf"
    [] exportType = "csv_data" -> "match-data.csv"
    [] exportType = "full_package" -> "complete-analysis.zip"
    [] OTHER -> "export.file"

\* `exports/${exportId}/${fileName}`
mockFilePath(exportId, exportType) == <<"exports", exportId, getFileNameForType(exportType)>>

\* createExport up to its first await: the insert.  The only condition on the
\* insert is the database's own: analysis_id REFERENCES analyses(id).  The
\* status of the analysis is not read.
CreateExport(analysisId, exportType, dbOk) ==
  /\ nextExportId <= MaxExports
  /\ IF dbOk /\ analysisId \in DOMAIN analyses
       THEN /\ exports' = exports @@ (nextExportId :> NewExport(analysisId, exportType, Now))
            /\ nextExportId' = nextExportId + 1
            /\ awaitingProcess' = awaitingProcess \cup {nextExportId}
            /\ returned' = Success(0)
       ELSE /\ UNCHANGED <<exports, nextExportId, awaitingProcess>>
            /\ returned' = Failure
  /\ UNCHANGED <<videos, analyses, nextVideoId, nextAnalysisId, awaitingTrigger,
                 analysisTimers, exportTimers>>
  /\ UNCHANGED clientVars

\* What the awaited status write of processExport can do: be applied, come
\* back with an error object (which is not looked at), or reject.  A rejection
\* is what the try/catch of processExport is for: the catch writes 'failed'
\* and nothing else, and that write in turn is applied, comes back with an
\* error, or rejects (then createExport's own catch returns success: false).
ProcessExportOutcomes ==
  {"written", "error", "threw_written", "threw_error", "threw_threw"}

\* processExport(exportId, exportType), and the return of createExport.
ProcessExport(exportId, outcome) ==
  /\ exportId \in awaitingProcess
  /\ awaitingProcess' = awaitingProcess \ {exportId}
  /\ exports' =
       CASE outcome = "written" -> ApplyUpdate(exports, exportId, [status |-> "generating"])
         [] outcome = "threw_written" -> ApplyUpdate(exports, exportId, [status |-> "failed"])
         [] OTHER -> exports
  /\ exportTimers' =
       IF outcome \in {"written", "error"} THEN exportTimers \cup {exportId} ELSE exportTimers
  /\ returned' = IF outcome = "threw_threw" THEN Failure ELSE Success(exportId)
  /\ UNCHANGED <<videos, analyses, nextVideoId, nextAnalysisId, nextExportId,
                 awaitingTrigger, analysisTimers>>
  /\ UNCHANGED clientVars

\* The callback as it would be if it marked the export completed without
\* storing the path of the file.
ExportCompletionCallback_NoPath(exportId, dbOk) ==
  /\ exportId \in exportTimers
  /\ exportTimers' = exportTimers \ {exportId}
  /\ exports' =
       IF dbOk THEN ApplyUpdate(exports, exportId, [status |-> "completed"]) ELSE exports
  /\ returned' = Success(0)
  /\ UNCHANGED <<videos, analyses, nextVideoId, nextAnalysisId, nextExportId,
                 awaitingTrigger, analysisTimers, awaitingProcess>>
  /\ UNCHANGED clientVars

\* The setTimeout callback of processExport: one unconditional write.
ExportCompletionCallback(exportId, dbOk) ==
  /\ exportId \in exportTimers
  /\ exportTimers' = exportTimers \ {exportId}
  /\ exports' =
       IF dbOk /\ exportId \in DOMAIN exports
         THEN ApplyUpdate(exports, exportId,
                [status |-> "completed",
                 file_path |-> Some(mockFilePath(exportId, exports[exportId].export_type))])
         ELSE exports
  /\ returned' = Success(0)
  /\ UNCHANGED <<videos, analyses, nextVideoId, nextAnalysisId, nextExportId,
                 awaitingTrigger, analysisTimers, awaitingProcess>>
  /\ UNCHANGED clientVars

----------------------------------------------------------------------------
(* VideoService *)

\* uploadVideo.  uploadVideoSupabase: the storage upload, the user lookup and
\* the insert of the row, which is written with status 'processing'; any of
\* the three failing returns { success: false } and leaves no row.
\* uploadVideoLocal: one POST to the local API, whose upload view creates the
\* row with status 'processing' too; a response that is not ok returns
\* { success: false }.
uploadVideo(ok) ==
  /\ nextVideoId <= MaxVideos
  /\ IF ok
       THEN /\ videos' = videos @@ (nextVideoId :> NewVideo)
            /\ nextVideoId' = nextVideoId + 1
            /\ returned' = Success(nextVideoId)
       ELSE /\ UNCHANGED <<videos, nextVideoId>>
            /\ returned' = Failure
  /\ UNCHANGED <<analyses, exports, nextAnalysisId, nextExportId, awaitingTrigger,
                 analysisTimers, awaitingProcess, exportTimers>>

\* uploadVideo called on its own.
UploadVideo(ok) ==
  /\ uploadVideo(ok)
  /\ UNCHANGED clientVars

\* A cascade without its foreign key: every analysis goes with every video.
AnalysesOfVideo_All(videoId) == DOMAIN analyses

\* The analyses that go with a video (analyses.video_id ... ON DELETE CASCADE).
AnalysesOfVideo(videoId) == {a \in DOMAIN analyses : analyses[a].video_id = videoId}

\* The exports that go with analyses (exports.analysis_id ... ON DELETE CASCADE).
ExportsOfAnalyses(ids) == {e \in DOMAIN exports : exports[e].analysis_id \in ids}

\* deleteVideo(id): getVideo throws for an unknown id; the delete of the row
\* cascades to its analyses and their exports.  Scheduled callbacks are not
\* cancelled.
DeleteVideo(videoId, dbOk) ==
  /\ IF dbOk /\ videoId \in DOMAIN videos
       THEN /\ videos' = DeleteRows(videos, {videoId})
            /\ analyses' = DeleteRows(analyses, AnalysesOfVideo(videoId))
            /\ exports' = DeleteRows(exports, ExportsOfAnalyses(AnalysesOfVideo(videoId)))
            /\ returned' = Success(0)
       ELSE /\ UNCHANGED <<videos, analyses, exports>>
            /\ returned' = Failure
  /\ UNCHANGED <<nextVideoId, nextAnalysisId, nextExportId, awaitingTrigger,
                 analysisTimers, awaitingProcess, exportTimers>>
  /\ UNCHANGED clientVars

----------------------------------------------------------------------------
(* LocalAnalyticsService *)

\* deleteAnalysis(id): DELETE /api/analytics/analyses/{id}/ against the backend
\* that keeps its models in the same tables; a response that is not ok
\* returns { success: false }.  The exports of the analysis go with it.
DeleteAnalysis(analysisId, ok) ==
  /\ IF ok /\ analysisId \in DOMAIN analyses
       THEN /\ analyses' = DeleteRows(analyses, {analysisId})
            /\ exports' = DeleteRows(exports, ExportsOfAnalyses({analysisId}))
            /\ returned' = Success(0)
       ELSE /\ UNCHANGED <<analyses, exports>>
            /\ returned' = Failure
  /\ UNCHANGED <<videos, nextVideoId, nextAnalysisId, nextExportId, awaitingTrigger,
                 analysisTimers, awaitingProcess, exportTimers>>
  /\ UNCHANGED clientVars

----------------------------------------------------------------------------
(* VideoUpload component *)

GiB == 1024 * 1024 * 1024

\* A size in bytes, gib * 2^30 + rest with rest below 2^30.
Bytes(gib, rest) == [gib |-> gib, rest |-> rest]

\* a > b on sizes
GreaterThan(a, b) == a.gib > b.gib \/ (a.gib = b.gib /\ a.rest > b.rest)

\* const maxSize = 2 * 1024 * 1024 * 1024
maxSize == Bytes(2, 0)

allowedTypes == {"video/mp4", "video/mov", "video/avi", "video/quicktime"}

\* The files a user can hand to the component: the four types of the list and
\* one outside it, one byte under the limit, at the limit, one byte over it.
FileTypes == allowedTypes \cup {"video/x-msvideo"}
FileSizes == {Bytes(1, GiB - 1), Bytes(2, 0), Bytes(2, 1)}
Files == [name : {<<"match", "mp4">>}, type : FileTypes, size : FileSizes]

\* file.name.replace(/\.[^/.]+$/, ""): a name is <<base, extension>>.
RemoveExtension(name) == name[1]

Titles == {"final"}
AnalysisIntents == {"full_match"}

UploadError(progress) == [progress |-> progress, status |-> "error"]

\* handleFileSelect with the size test written `>=`: a file of exactly 2 GB is
\* refused.
HandleFileSelect_RefusesAtLimit(file) ==
  /\ IF file.type \notin allowedTypes
       THEN /\ uploadProgress' = UploadError(0)
            /\ UNCHANGED <<selectedFile, formData>>
       ELSE IF GreaterThan(file.size, maxSize) \/ file.size = maxSize
         THEN /\ uploadProgress' = UploadError(0)
              /\ UNCHANGED <<selectedFile, formData>>
         ELSE /\ selectedFile' = Some(file)
              /\ uploadProgress' = [progress |-> 0, status |-> "idle"]
              /\ formData' = IF formData.title = ""
                               THEN [formData EXCEPT !.title = RemoveExtension(file.name)]
                               ELSE formData
  /\ UNCHANGED <<submits, uploadRest, storeVars>>

\* handleFileSelect(file): the type test, then the size test, then the file
\* becomes the selected one and an empty title is filled from its name.
HandleFileSelect(file) ==
  /\ IF file.type \notin allowedTypes
       THEN /\ uploadProgress' = UploadError(0)
            /\ UNCHANGED <<selectedFile, formData>>
       ELSE IF GreaterThan(file.size, maxSize)
         THEN /\ uploadProgress' = UploadError(0)
              /\ UNCHANGED <<selectedFile, formData>>
         ELSE /\ selectedFile' = Some(file)
              /\ uploadProgress' = [progress |-> 0, status |-> "idle"]
              /\ formData' = IF formData.title = ""
                               THEN [formData EXCEPT !.title = RemoveExtension(file.name)]
                               ELSE formData
  /\ UNCHANGED <<submits, uploadRest, storeVars>>

\* The "Change File" button.
ChangeFile ==
  /\ selectedFile # Null
  /\ selectedFile' = Null
  /\ UNCHANGED <<formData, uploadProgress, submits, uploadRest, storeVars>>

\* The title input and the analysis type select.
SetTitle(title) ==
  /\ formData' = [formData EXCEPT !.title = title]
  /\ UNCHANGED <<selectedFile, uploadProgress, submits, uploadRest, storeVars>>

SetAnalysisIntent(value) ==
  /\ formData' = [formData EXCEPT !.analysisIntent = value]
  /\ UNCHANGED <<selectedFile, uploadProgress, submits, uploadRest, storeVars>>

\* handleSubmit up to its first await: the test of the required fields, then
\* the call of uploadVideo, which reports 'uploading' before it awaits.
HandleSubmit ==
  /\ Len(submits) < MaxSubmits
  /\ IF selectedFile = Null \/ formData.title = "" \/ formData.analysisIntent = ""
       THEN /\ uploadProgress' = UploadError(0)
            /\ UNCHANGED submits
       ELSE /\ uploadProgress' = [progress |-> 0, status |-> "uploading"]
            /\ submits' = Append(submits, [pc |-> "uploading", videoId |-> 0, analysisId |-> 0])
  /\ UNCHANGED <<selectedFile, formData, uploadRest, storeVars>>

\* handleSubmit when an upload that failed returns: as the code has it, the
\* call ends and nothing is reset.  Here the form is reset all the same.
SubmitUploadReturns_ResetsOnFailure(s, ok, failedAt) ==
  /\ s \in DOMAIN submits
  /\ submits[s].pc = "uploading"
  /\ uploadVideo(ok)
  /\ IF ok
       THEN /\ uploadProgress' = [progress |-> 100, status |-> "completed"]
            /\ submits' = [submits EXCEPT ![s] = [@ EXCEPT !.pc = "creating",
                                                           !.videoId = nextVideoId]]
            /\ UNCHANGED <<selectedFile, formData>>
       ELSE /\ uploadProgress' = UploadError(failedAt)
            /\ submits' = [submits EXCEPT ![s] = [@ EXCEPT !.pc = "upload_failed"]]
            /\ selectedFile' = Null
            /\ formData' = EmptyForm
  /\ UNCHANGED uploadRest

\* handleSubmit when uploadVideo returns.  uploadVideo reports 100/'completed'
\* or 'error' (at progress 0, or 50 when the insert of the row failed) through
\* the callback.  Only `result.success && result.videoId` goes on to
\* createAnalysis; otherwise the call ends with the form as it was.
SubmitUploadReturns(s, ok, failedAt) ==
  /\ s \in DOMAIN submits
  /\ submits[s].pc = "uploading"
  /\ uploadVideo(ok)
  /\ IF ok
       THEN /\ uploadProgress' = [progress |-> 100, status |-> "completed"]
            /\ submits' = [submits EXCEPT ![s] = [@ EXCEPT !.pc = "creating",
                                                           !.videoId = nextVideoId]]
       ELSE /\ uploadProgress' = UploadError(failedAt)
            /\ submits' = [submits EXCEPT ![s] = [@ EXCEPT !.pc = "upload_failed"]]
  /\ UNCHANGED <<selectedFile, formData, uploadRest>>

\* handleSubmit inside createAnalysis: the insert.  When it fails createAnalysis
\* returns { success: false }, which handleSubmit does not look at: the form
\* is reset.
SubmitCreateAnalysis(s, dbOk) ==
  /\ s \in DOMAIN submits
  /\ submits[s].pc = "creating"
  /\ createAnalysisInsert(submits[s].videoId, dbOk)
  /\ IF dbOk /\ submits[s].videoId \in DOMAIN videos
       THEN /\ submits' = [submits EXCEPT ![s] = [@ EXCEPT !.pc = "triggering",
                                                           !.analysisId = nextAnalysisId]]
            /\ UNCHANGED <<selectedFile, formData>>
       ELSE /\ submits' = [submits EXCEPT ![s] = [@ EXCEPT !.pc = "reset"]]
            /\ selectedFile' = Null
            /\ formData' = EmptyForm
  /\ UNCHANGED <<uploadProgress, uploadRest>>

\* handleSubmit inside createAnalysis: triggerProcessing, then the return of
\* createAnalysis and the reset of the form.
SubmitTriggerProcessing(s, dbOk) ==
  /\ s \in DOMAIN submits
  /\ submits[s].pc = "triggering"
  /\ triggerProcessing(submits[s].analysisId, dbOk)
  /\ submits' = [submits EXCEPT ![s] = [@ EXCEPT !.pc = "reset"]]
  /\ selectedFile' = Null
  /\ formData' = EmptyForm
  /\ UNCHANGED <<uploadProgress, uploadRest>>

----------------------------------------------------------------------------
(* AnalyticsService.getAnalysis *)

\* getAnalysis(id): the whole row, every column included, or nothing when no
\* row has the id (.single() reports an error, which getAnalysis throws).
getAnalysis(id) == IF id \in DOMAIN analyses THEN Some(analyses[id]) ELSE Null

----------------------------------------------------------------------------
(* AnalyticsService.addManualAnnotation *)

\* addManualAnnotation(analysisId, annotation) up to its write: the call reads
\* the analysis with getAnalysis.  In BaaS mode a missing row makes .single()
\* report an error, which getAnalysis throws and the catch turns into
\* { success: false }; so does a request that fails.  Otherwise the call holds
\* the list it read.  The annotation is identified by the number of the call.
AddManualAnnotation(analysisId, ok) ==
  /\ Len(annotationCalls) < MaxAnnotationCalls
  /\ IF ok /\ getAnalysis(analysisId) # Null
       THEN /\ annotationCalls' =
                 Append(annotationCalls,
                        [analysisId |-> analysisId,
                         pc |-> "writing",
                         currentAnnotations |-> getAnalysis(analysisId)[1].manual_annotations])
            /\ UNCHANGED returned
       ELSE /\ annotationCalls' =
                 Append(annotationCalls,
                        [analysisId |-> analysisId,
                         pc |-> "failed",
                         currentAnnotations |-> <<>>])
            /\ returned' = Failure
  /\ UNCHANGED <<videos, analyses, exports, nextVideoId, nextAnalysisId, nextExportId,
                 awaitingTrigger, analysisTimers, awaitingProcess, exportTimers>>
  /\ UNCHANGED annotationRest

\* The second half of addManualAnnotation: updateAnalysis with the list that
\* was read and the new annotation appended; its result is the result of the
\* call.
AnnotationWrite(c, dbOk) ==
  /\ c \in DOMAIN annotationCalls
  /\ annotationCalls[c].pc = "writing"
  /\ LET updates == [manual_annotations |->
                       Append(annotationCalls[c].currentAnnotations, c)]
     IN /\ analyses' = updateAnalysis(annotationCalls[c].analysisId, updates, dbOk)
        /\ returned' = IF updateAnalysisSucceeds(updates, dbOk) THEN Success(0) ELSE Failure
        /\ annotationCalls' =
             [annotationCalls EXCEPT ![c].pc =
                IF updateAnalysisSucceeds(updates, dbOk) THEN "succeeded" ELSE "failed"]
  /\ UNCHANGED <<videos, exports, nextVideoId, nextAnalysisId, nextExportId,
                 awaitingTrigger, analysisTimers, awaitingProcess, exportTimers>>
  /\ UNCHANGED annotationRest

----------------------------------------------------------------------------
(* ExportService.downloadExport *)

\* downloadExport without its test of status and file_path: every export that
\* is found goes on to createSignedUrl.
DownloadExport_SkipsReadyTest(exportId, ok) ==
  /\ IF exportId \in DOMAIN downloads THEN downloads[exportId].pc # "signing" ELSE TRUE
  /\ IF ok /\ exportId \in DOMAIN exports
       THEN /\ downloads' =
                 [e \in DOMAIN downloads \cup {exportId} |->
                    IF e = exportId
                      THEN [pc |-> "signing", file_path |-> exports[exportId].file_path]
                      ELSE downloads[e]]
            /\ UNCHANGED returned
       ELSE /\ returned' = Failure
            /\ UNCHANGED downloads
  /\ UNCHANGED <<videos, analyses, exports, nextVideoId, nextAnalysisId, nextExportId,
                 awaitingTrigger, analysisTimers, awaitingProcess, exportTimers>>
  /\ UNCHANGED downloadRest

\* downloadExport(exportId) up to createSignedUrl.  getExport throws when the
\* request fails or no row has the id, and the catch returns success: false;
\* a record that is not completed or has no file_path returns success: false
\* ('Export not ready for download').  Otherwise the call goes on with the
\* file_path it read.  One call per export is followed at a time.
DownloadExport(exportId, ok) ==
  /\ IF exportId \in DOMAIN downloads THEN downloads[exportId].pc # "signing" ELSE TRUE
  /\ IF /\ ok
        /\ exportId \in DOMAIN exports
        /\ ~(exports[exportId].status # "completed" \/ exports[exportId].file_path = Null)
       THEN /\ downloads' =
                 [e \in DOMAIN downloads \cup {exportId} |->
                    IF e = exportId
                      THEN [pc |-> "signing", file_path |-> exports[exportId].file_path]
                      ELSE downloads[e]]
            /\ UNCHANGED returned
       ELSE /\ returned' = Failure
            /\ UNCHANGED downloads
  /\ UNCHANGED <<videos, analyses, exports, nextVideoId, nextAnalysisId, nextExportId,
                 awaitingTrigger, analysisTimers, awaitingProcess, exportTimers>>
  /\ UNCHANGED downloadRest

\* The return of createSignedUrl and of downloadExport: success with the URL
\* when there is a signedUrl, success: false otherwise (also when the request
\* throws).
DownloadSigned(exportId, signed) ==
  /\ exportId \in DOMAIN downloads
  /\ downloads[exportId].pc = "signing"
  /\ downloads' = [downloads EXCEPT ![exportId].pc = IF signed THEN "url" ELSE "no_url"]
  /\ returned' = IF signed THEN Success(exportId) ELSE Failure
  /\ UNCHANGED <<videos, analyses, exports, nextVideoId, nextAnalysisId, nextExportId,
                 awaitingTrigger, analysisTimers, awaitingProcess, exportTimers>>
  /\ UNCHANGED downloadRest

----------------------------------------------------------------------------
(* LocalAuthService *)

getItem(key) == localStorage[key]
setItem(storage, key, value) == [storage EXCEPT ![key] = Some(value)]
removeItem(storage, key) == [storage EXCEPT ![key] = Null]

\* "Clear local storage" of logout: the three removeItem calls.
ClearAuth(storage) ==
  removeItem(removeItem(removeItem(storage, "access_token"), "refresh_token"), "user")

\* A call of LocalAuthService: the operation, whether it awaits its fetch or
\* has returned, whether it was started without await by another operation
\* (`this.logout()` in a catch), whether it ended in its catch, and the kind of
\* value it returned.
AuthCall(op, pc, floating, failed, result) ==
  [op |-> op, pc |-> pc, floating |-> floating, failed |-> failed, result |-> result]

TopLevelCalls == {c \in DOMAIN authCalls : ~authCalls[c].floating}

\* login(credentials) and register(userData) at the response of the server:
\* the three items are stored.  A response that is not ok throws before the
\* storage is touched.
Login ==
  /\ localStorage' =
       setItem(setItem(setItem(localStorage, "access_token", "access"),
                       "refresh_token", "refresh"),
               "user", "user")
  /\ UNCHANGED authCalls
  /\ UNCHANGED storeVars
  /\ UNCHANGED authRest

\* logout() up to its first await, on the storage it finds: with a
\* refresh_token it sends the logout request and waits for it, the storage
\* as it was; without one it runs to its end and clears the storage.
logoutStorage(storage) ==
  IF storage["refresh_token"] # Null THEN storage ELSE ClearAuth(storage)

logoutCall(storage, floating) ==
  AuthCall("logout",
           IF storage["refresh_token"] # Null THEN "fetching" ELSE "returned",
           floating, FALSE, "void")

\* logout() called by the application.
Logout ==
  /\ Cardinality(TopLevelCalls) < MaxAuthCalls
  /\ authCalls' = Append(authCalls, logoutCall(localStorage, FALSE))
  /\ localStorage' = logoutStorage(localStorage)
  /\ UNCHANGED storeVars
  /\ UNCHANGED authRest

\* The logout request comes back, or throws and is caught: either way the
\* storage is cleared and logout() returns.
LogoutFetchReturns(c, ok) ==
  /\ c \in DOMAIN authCalls
  /\ authCalls[c].op = "logout"
  /\ authCalls[c].pc = "fetching"
  /\ localStorage' = ClearAuth(localStorage)
  /\ authCalls' = [authCalls EXCEPT ![c].pc = "returned"]
  /\ UNCHANGED storeVars
  /\ UNCHANGED authRest

\* getCurrentUser() up to its fetch: null without an access_token, the stored
\* user when there is one, otherwise the request for the user.
GetCurrentUser ==
  /\ Cardinality(TopLevelCalls) < MaxAuthCalls
  /\ authCalls' =
       Append(authCalls,
              IF getItem("access_token") = Null
                THEN AuthCall("getCurrentUser", "returned", FALSE, FALSE, "null")
                ELSE IF getItem("user") # Null
                  THEN AuthCall("getCurrentUser", "returned", FALSE, FALSE, "user")
                  ELSE AuthCall("getCurrentUser", "fetching", FALSE, FALSE, "null"))
  /\ UNCHANGED localStorage
  /\ UNCHANGED storeVars
  /\ UNCHANGED authRest

\* The request for the user comes back.  With an ok response the user is
\* stored and returned.  Otherwise the catch calls this.logout() without
\* awaiting it and returns null: logout has run up to its first await.
GetCurrentUserFetchReturns(c, ok) ==
  /\ c \in DOMAIN authCalls
  /\ authCalls[c].op = "getCurrentUser"
  /\ authCalls[c].pc = "fetching"
  /\ IF ok
       THEN /\ localStorage' = setItem(localStorage, "user", "user")
            /\ authCalls' = [authCalls EXCEPT ![c].pc = "returned", ![c].result = "user"]
       ELSE /\ localStorage' = logoutStorage(localStorage)
            /\ authCalls' =
                 Append([authCalls EXCEPT ![c].pc = "returned", ![c].failed = TRUE],
                        logoutCall(localStorage, TRUE))
  /\ UNCHANGED storeVars
  /\ UNCHANGED authRest

\* refreshToken() up to its fetch: null without a refresh_token.
RefreshToken ==
  /\ Cardinality(TopLevelCalls) < MaxAuthCalls
  /\ authCalls' =
       Append(authCalls,
              IF getItem("refresh_token") = Null
                THEN AuthCall("refreshToken", "returned", FALSE, FALSE, "null")
                ELSE AuthCall("refreshToken", "fetching", FALSE, FALSE, "null"))
  /\ UNCHANGED localStorage
  /\ UNCHANGED storeVars
  /\ UNCHANGED authRest

\* The refresh request comes back.  With an ok response the new access token
\* is stored and returned.  Otherwise the catch calls this.logout() without
\* awaiting it and returns null.
RefreshTokenFetchReturns(c, ok) ==
  /\ c \in DOMAIN authCalls
  /\ authCalls[c].op = "refreshToken"
  /\ authCalls[c].pc = "fetching"
  /\ IF ok
       THEN /\ localStorage' = setItem(localStorage, "access_token", "refreshed_access")
            /\ authCalls' = [authCalls EXCEPT ![c].pc = "returned", ![c].result = "token"]
       ELSE /\ localStorage' = logoutStorage(localStorage)
            /\ authCalls' =
                 Append([authCalls EXCEPT ![c].pc = "returned", ![c].failed = TRUE],
                        logoutCall(localStorage, TRUE))
  /\ UNCHANGED storeVars
  /\ UNCHANGED authRest

\* getSession(): null without an access_token, otherwise the two tokens.
getSession(storage) ==
  IF storage["access_token"] = Null
    THEN Null
    ELSE Some([access_token |-> storage["access_token"],
               refresh_token |-> storage["refresh_token"]])

----------------------------------------------------------------------------
(* App: AuthProvider, Layout and the routes *)

PublicPaths == {"/login", "/signup"}
ProtectedPaths == {"/dashboard", "/upload", "/videos", "/analytics", "/exports", "/settings"}

\* The paths a browser can be sent to: the routes, "/" and one path that only
\* the "*" route matches.
Paths == PublicPaths \cup ProtectedPaths \cup {"/", "/reports"}

Emails == {"coach@club.example", "analyst@club.example"}

\* The mock user signIn builds: only the email varies.
mockUser(email) == [id |-> "1", email |-> email]

\* ProtectedRoute without its test of the user.
ProtectedRoute_NoUserTest(children) ==
  IF loading THEN PageLoader ELSE children

ProtectedRoute(children) ==
  IF loading
    THEN PageLoader
    ELSE IF user = Null THEN Navigate("/login") ELSE children

PublicRoute(children) ==
  IF loading
    THEN PageLoader
    ELSE IF user # Null THEN Navigate("/dashboard") ELSE children

\* <Routes>: the element of the route that matches the location.
AppRoutes ==
  IF location \in PublicPaths
    THEN PublicRoute(Page(location))
    ELSE IF location \in ProtectedPaths
      THEN ProtectedRoute(Page(location))
      ELSE Navigate("/dashboard")

\* Layout shows the loader instead of its children while loading; otherwise
\* the children, with or without the sidebar and header around them.
Layout(children) == IF loading THEN PageLoader ELSE children

\* The page is loaded at a path in a new tab: the state of the hook is as
\* useState initialises it, and the first render happens before the effect.
LoadPage(path) ==
  /\ user' = Null
  /\ loading' = FALSE
  /\ mounted' = FALSE
  /\ location' = path
  /\ history' = <<>>
  /\ rendered' = Layout(AppRoutes)'
  /\ UNCHANGED localStorage
  /\ UNCHANGED storeVars
  /\ UNCHANGED routeRest

\* The effect of useAuthProvider: a saved 'dev-user' becomes the user.
MountEffect ==
  /\ ~mounted
  /\ mounted' = TRUE
  /\ user' = IF getItem("dev-user") # Null THEN getItem("dev-user") ELSE user
  /\ loading' = FALSE
  /\ UNCHANGED <<location, history, localStorage>>
  /\ rendered' = Layout(AppRoutes)'
  /\ UNCHANGED storeVars
  /\ UNCHANGED routeRest

\* signIn(email, password), and signUp, which calls it: the three state
\* updates are made in one synchronous run and rendered together.
SignIn(email) ==
  /\ mounted
  /\ user' = Some(mockUser(email))
  /\ localStorage' = setItem(localStorage, "dev-user", mockUser(email))
  /\ loading' = FALSE
  /\ UNCHANGED <<mounted, location, history>>
  /\ rendered' = Layout(AppRoutes)'
  /\ UNCHANGED storeVars
  /\ UNCHANGED routeRest

SignOut ==
  /\ mounted
  /\ user' = Null
  /\ localStorage' = removeItem(localStorage, "dev-user")
  /\ UNCHANGED <<loading, mounted, location, history>>
  /\ rendered' = Layout(AppRoutes)'
  /\ UNCHANGED storeVars
  /\ UNCHANGED routeRest

\* The visitor follows a link: the router pushes the path on the history.
Visit(path) ==
  /\ mounted
  /\ Len(history) < MaxHistory
  /\ location' = path
  /\ history' = Append(history, location)
  /\ UNCHANGED <<user, loading, mounted, localStorage>>
  /\ rendered' = Layout(AppRoutes)'
  /\ UNCHANGED storeVars
  /\ UNCHANGED routeRest

\* The visitor goes back one entry of the history.
Back ==
  /\ mounted
  /\ history # <<>>
  /\ location' = history[Len(history)]
  /\ history' = SubSeq(history, 1, Len(history) - 1)
  /\ UNCHANGED <<user, loading, mounted, localStorage>>
  /\ rendered' = Layout(AppRoutes)'
  /\ UNCHANGED storeVars
  /\ UNCHANGED routeRest

\* The effect of a rendered <Navigate to=... replace />: the path takes the
\* place of the current entry of the history.
Redirect ==
  /\ rendered.kind = "navigate"
  /\ location' = rendered.path
  /\ UNCHANGED <<user, loading, mounted, history, localStorage>>
  /\ rendered' = Layout(AppRoutes)'
  /\ UNCHANGED storeVars
  /\ UNCHANGED routeRest

----------------------------------------------------------------------------
(* Backend selection of AnalyticsService *)

AnalyticsOperations == {"createAnalysis", "getAnalyses", "getAnalysis", "updateAnalysis"}

\* The backend the configuration names: the local HTTP API when VITE_AUTH_MODE
\* is 'local', the BaaS client otherwise.
SelectedBackend == IF IS_LOCAL_MODE THEN "local_api" ELSE "supabase"

\* The backend an operation sends its request to.  getAnalyses and getAnalysis
\* test IS_LOCAL_MODE on every call; createAnalysis and updateAnalysis contain
\* no such test and always use the supabase client.
BackendUsed(operation) ==
  IF operation \in {"getAnalyses", "getAnalysis"}
    THEN (IF IS_LOCAL_MODE THEN "local_api" ELSE "supabase")
    ELSE "supabase"

\* The client loaded in either mode.
InitBackend ==
  /\ IS_LOCAL_MODE \in BOOLEAN
  /\ InitComponents
  /\ InitStore

----------------------------------------------------------------------------
(* Shape of the state *)

AnalysisRow ==
  [video_id : VideoIds,
   status : AnalysisStatus,
   openstarlab_results : {Null, Some(mockResults)},
   ai_insights : {Null, Some(mockInsights)},
   processing_time : {Null, Some(mockProcessingTime)},
   progress_percentage : 0..100,
   started_at : {Null},
   completed_at : {Null},
   error_message : {Null},
   manual_annotations : Seq(1..MaxAnnotationCalls)]

ExportRow ==
  [analysis_id : AnalysisIds,
   export_type : ExportType,
   status : ExportStatus,
   file_path : {Null} \cup {Some(mockFilePath(e, t)) : e \in ExportIds, t \in ExportType},
   created_at : 1..MaxExports]

TypeOK ==
  /\ DOMAIN videos \subseteq VideoIds
  /\ \A v \in DOMAIN videos : videos[v] = NewVideo
  /\ DOMAIN analyses \subseteq AnalysisIds
  /\ \A a \in DOMAIN analyses : analyses[a] \in AnalysisRow
  /\ DOMAIN exports \subseteq ExportIds
  /\ \A e \in DOMAIN exports : exports[e] \in ExportRow
  /\ nextVideoId \in 1..MaxVideos + 1
  /\ nextAnalysisId \in 1..MaxAnalyses + 1
  /\ nextExportId \in 1..MaxExports + 1
  /\ awaitingTrigger \subseteq AnalysisIds
  /\ analysisTimers \subseteq AnalysisIds
  /\ awaitingTrigger \cap analysisTimers = {}
  /\ awaitingProcess \subseteq ExportIds
  /\ exportTimers \subseteq ExportIds
  /\ awaitingProcess \cap exportTimers = {}
  /\ returned \in [success : BOOLEAN, id : 0..MaxVideos \cup AnalysisIds \cup ExportIds]
  /\ IS_LOCAL_MODE \in BOOLEAN
  /\ selectedFile \in {Null} \cup {Some(f) : f \in Files}
  /\ formData \in [title : {""} \cup Titles \cup {RemoveExtension(f.name) : f \in Files},
                    analysisIntent : {""} \cup AnalysisIntents]
  /\ uploadProgress.progress \in 0..100
  /\ uploadProgress.status \in {"idle", "uploading", "completed", "error"}
  /\ Len(submits) <= MaxSubmits
  /\ Len(annotationCalls) <= MaxAnnotationCalls
  /\ DOMAIN downloads \subseteq ExportIds
  /\ \A e \in DOMAIN downloads : downloads[e].pc \in {"signing", "url", "no_url"}
  /\ DOMAIN localStorage = StorageKeys
  /\ Cardinality(TopLevelCalls) <= MaxAuthCalls
  /\ \A c \in DOMAIN authCalls : authCalls[c].pc \in {"fetching", "returned"}
  /\ user \in {Null} \cup {Some(mockUser(email)) : email \in Emails}
  /\ loading \in BOOLEAN
  /\ mounted \in BOOLEAN
  /\ location \in Paths
  /\ Len(history) <= MaxHistory
  /\ rendered \in {PageLoader} \cup {Page(p) : p \in Paths} \cup {Navigate(p) : p \in Paths}

----------------------------------------------------------------------------
(* Specifications *)

NextVideo ==
  \E ok \in BOOLEAN : UploadVideo(ok)

\* Creation of an analysis and the background steps it starts.
NextAnalysis ==
  \/ \E v \in VideoIds, ok \in BOOLEAN : CreateAnalysis(v, ok)
  \/ \E a \in AnalysisIds, ok \in BOOLEAN : TriggerProcessing(a, ok)
  \/ \E a \in AnalysisIds, ok \in BOOLEAN : CompletionCallback(a, ok)

\* Creation of an export and the background steps it starts.
NextExport ==
  \/ \E a \in AnalysisIds, t \in ExportType, ok \in BOOLEAN : CreateExport(a, t, ok)
  \/ \E e \in ExportIds, o \in ProcessExportOutcomes : ProcessExport(e, o)
  \/ \E e \in ExportIds, ok \in BOOLEAN : ExportCompletionCallback(e, ok)

\* Direct calls of the public updateAnalysis.
NextUpdate ==
  \E a \in AnalysisIds, u \in UpdateInputs, ok \in BOOLEAN : UpdateAnalysis(a, u, ok)

\* Progress reports through the public updateAnalysis.
NextProgress ==
  \E a \in AnalysisIds, u \in ProgressInputs, ok \in BOOLEAN : UpdateAnalysis(a, u, ok)

NextDelete ==
  \/ \E v \in VideoIds, ok \in BOOLEAN : DeleteVideo(v, ok)
  \/ \E a \in AnalysisIds, ok \in BOOLEAN : DeleteAnalysis(a, ok)

\* Every operation.
Next ==
  NextVideo \/ NextAnalysis \/ NextExport \/ NextUpdate \/ NextProgress \/ NextDelete

Spec == Init /\ [][Next]_vars

\* Uploads, job creation and the background steps that job creation starts:
\* the writes the application itself issues.
NextFlow == NextVideo \/ NextAnalysis \/ NextExport

SpecFlow == Init /\ [][NextFlow]_vars

\* The analyses table alone, under job creation and direct updateAnalysis calls.
NextAnalysisService == NextVideo \/ NextAnalysis \/ NextUpdate

SpecAnalysis == Init /\ [][NextAnalysisService]_vars

\* The user at the upload form.
NextUploadForm ==
  \/ \E file \in Files : HandleFileSelect(file)
  \/ ChangeFile
  \/ \E title \in Titles \cup {""} : SetTitle(title)
  \/ \E value \in AnalysisIntents : SetAnalysisIntent(value)
  \/ HandleSubmit
  \/ \E s \in 1..MaxSubmits, ok \in BOOLEAN, failedAt \in {0, 50} :
       SubmitUploadReturns(s, ok, failedAt)
  \/ \E s \in 1..MaxSubmits, ok \in BOOLEAN : SubmitCreateAnalysis(s, ok)
  \/ \E s \in 1..MaxSubmits, ok \in BOOLEAN : SubmitTriggerProcessing(s, ok)

\* The timers of the analyses fire.
NextTimers == \E a \in AnalysisIds, ok \in BOOLEAN : CompletionCallback(a, ok)

\* The upload page: the form, the submits in flight and the timers they start.
NextUploadPage == NextUploadForm \/ NextTimers

SpecUpload == Init /\ [][NextUploadPage]_vars

\* Annotations added to analyses.
NextAnnotations ==
  \/ \E a \in AnalysisIds, ok \in BOOLEAN : AddManualAnnotation(a, ok)
  \/ \E c \in 1..MaxAnnotationCalls, ok \in BOOLEAN : AnnotationWrite(c, ok)

\* Analyses and the annotations made on them.
NextAnnotatedAnalyses == NextVideo \/ NextAnalysis \/ NextAnnotations

SpecAnnotations == Init /\ [][NextAnnotatedAnalyses]_vars

\* Downloads of exports.
NextDownload ==
  \/ \E e \in ExportIds, ok \in BOOLEAN : DownloadExport(e, ok)
  \/ \E e \in ExportIds, signed \in BOOLEAN : DownloadSigned(e, signed)

\* Job creation, its background steps and downloads of the exports.
NextDownloads == NextVideo \/ NextAnalysis \/ NextExport \/ NextDownload

SpecDownload == Init /\ [][NextDownloads]_vars

\* The same operations with the mode the client was built with left open.
SpecBackend == InitBackend /\ [][NextAnalysisService]_vars

\* The calls of LocalAuthService, their requests answered in any order.
NextAuth ==
  \/ Login
  \/ Logout
  \/ GetCurrentUser
  \/ RefreshToken
  \/ \E c \in 1..2 * MaxAuthCalls, ok \in BOOLEAN :
       \/ LogoutFetchReturns(c, ok)
       \/ GetCurrentUserFetchReturns(c, ok)
       \/ RefreshTokenFetchReturns(c, ok)

SpecAuth == Init /\ [][NextAuth]_vars

\* The visitor of the app: page loads, navigation, signing in and out.
NextRoutes ==
  \/ \E path \in Paths : LoadPage(path) \/ Visit(path)
  \/ MountEffect
  \/ \E email \in Emails : SignIn(email)
  \/ SignOut
  \/ Back
  \/ Redirect

SpecRoutes == Init /\ [][NextRoutes]_vars

\* The analyses table under job creation and progress reports.
NextProgressReports == NextVideo \/ NextAnalysis \/ NextProgress

SpecProgress == Init /\ [][NextProgressReports]_vars

\* The three tables under everything that inserts or deletes rows.
NextStore == NextVideo \/ NextAnalysis \/ NextExport \/ NextDelete

SpecStore == Init /\ [][NextStore]_vars

\* The event loop runs every continuation and fires every timer: a pending
\* await resumes and a scheduled callback runs.  Whether the database accepts
\* the write a step makes is not in the program's hands.
FairFlow ==
  /\ SpecFlow
  /\ \A a \in AnalysisIds : WF_vars(\E ok \in BOOLEAN : TriggerProcessing(a, ok))
  /\ \A a \in AnalysisIds : WF_vars(\E ok \in BOOLEAN : CompletionCallback(a, ok))
  /\ \A e \in ExportIds : WF_vars(\E o \in ProcessExportOutcomes : ProcessExport(e, o))
  /\ \A e \in ExportIds : WF_vars(\E ok \in BOOLEAN : ExportCompletionCallback(e, ok))

----------------------------------------------------------------------------
(* Vocabulary of the claims *)

ActiveStatus == {"pending", "processing", "generating"}
TerminalStatus == {"completed", "failed", "cancelled"}

\* The transitions of the job state machine; for exports 'generating' is
\* the processing state.
LegalAnalysisTransitions ==
  {<<"pending", "processing">>, <<"processing", "completed">>,
   <<"processing", "failed">>, <<"pending", "cancelled">>,
   <<"processing", "cancelled">>}

LegalExportTransitions ==
  {<<"pending", "generating">>, <<"generating", "completed">>,
   <<"generating", "failed">>, <<"pending", "cancelled">>,
   <<"generating", "cancelled">>}

\* The error information a stored export carries: the column if the row has
\* one.
ExportErrorInfo(row) ==
  IF "error_message" \in DOMAIN row THEN row.error_message ELSE Null

----------------------------------------------------------------------------
(* Claims *)

\* C1: at most one analysis per video_id is pending or processing at any
\* time, whatever createAnalysis calls were made and however they interleaved.
C1_OneActiveAnalysisPerVideo ==
  \A a, b \in DOMAIN analyses :
    (/\ a # b
     /\ analyses[a].video_id = analyses[b].video_id
     /\ analyses[a].status \in ActiveStatus)
    => analyses[b].status \notin ActiveStatus

\* C2: every change of the status of a stored analysis or export is one of
\* pending->processing, processing->completed, processing->failed,
\* pending->cancelled, processing->cancelled (generating for exports).
C2_OnlyLegalTransitions ==
  [][/\ \A a \in DOMAIN analyses \cap DOMAIN analyses' :
          analyses'[a].status # analyses[a].status
            => <<analyses[a].status, analyses'[a].status>> \in LegalAnalysisTransitions
     /\ \A e \in DOMAIN exports \cap DOMAIN exports' :
          exports'[e].status # exports[e].status
            => <<exports[e].status, exports'[e].status>> \in LegalExportTransitions]_vars

\* C3: on an analysis that is completed, failed or cancelled, the completion
\* callback changes nothing, and an updateAnalysis call that is not a cancel
\* changes nothing and returns an error.
C3_TerminalJobsRejectTransitions ==
  [][\A a \in DOMAIN analyses :
       analyses[a].status \in TerminalStatus =>
         /\ (\E ok \in BOOLEAN : CompletionCallback(a, ok))
              => analyses'[a] = analyses[a]
         /\ (\E u \in UpdateInputs \ {[status |-> "cancelled"]}, ok \in BOOLEAN :
                UpdateAnalysis(a, u, ok))
              => (analyses'[a] = analyses[a] /\ returned' = Failure)]_vars

\* C4: createExport for an analysis that does not exist or is not completed
\* returns an error, inserts no export, issues no id and starts no processing.
C4_ExportNeedsCompletedAnalysis ==
  [][\A a \in AnalysisIds, t \in ExportType, ok \in BOOLEAN :
       (/\ CreateExport(a, t, ok)
        /\ ~(a \in DOMAIN analyses /\ analyses[a].status = "completed"))
       => (/\ returned' = Failure
           /\ UNCHANGED <<exports, nextExportId, awaitingProcess, exportTimers>>)]_vars

\* C5: a completed analysis has a result with an events list, a tactical
\* analysis, player evaluations and confidence scores.
C5_CompletedResultIsWellFormed ==
  \A a \in DOMAIN analyses :
    analyses[a].status = "completed" =>
      /\ analyses[a].openstarlab_results # Null
      /\ RequiredSections \subseteq analyses[a].openstarlab_results[1]

\* C6: createAnalysis for a video that is missing or not ready is rejected
\* and creates no analysis.
C6_AnalysisNeedsReadyVideo ==
  [][\A v \in VideoIds, ok \in BOOLEAN :
       (/\ CreateAnalysis(v, ok)
        /\ ~(v \in DOMAIN videos /\ videos[v].status = "ready"))
       => (/\ returned' = Failure
           /\ UNCHANGED <<analyses, nextAnalysisId, awaitingTrigger>>)]_vars

\* C7: every analysis and every export that has been created eventually is
\* completed, failed or cancelled.
C7_EveryJobTerminates ==
  /\ \A a \in AnalysisIds :
       (a \in DOMAIN analyses)
         ~> (a \in DOMAIN analyses /\ analyses[a].status \in TerminalStatus)
  /\ \A e \in ExportIds :
       (e \in DOMAIN exports)
         ~> (e \in DOMAIN exports /\ exports[e].status \in TerminalStatus)

\* C8: on a cancelled analysis the completion callback is a no-op: the status
\* stays cancelled and no result is stored.
C8_CallbackAfterCancelIsNoOp ==
  [][\A a \in DOMAIN analyses :
       (/\ analyses[a].status = "cancelled"
        /\ \E ok \in BOOLEAN : CompletionCallback(a, ok))
       => analyses'[a] = analyses[a]]_vars

\* C9: an analysis has a result if and only if its status is completed.
C9_ResultIffCompleted ==
  \A a \in DOMAIN analyses :
    analyses[a].openstarlab_results # Null <=> analyses[a].status = "completed"

\* C10: an analysis or export has error information if and only if its status
\* is failed.
C10_ErrorInfoIffFailed ==
  /\ \A a \in DOMAIN analyses :
       analyses[a].error_message # Null <=> analyses[a].status = "failed"
  /\ \A e \in DOMAIN exports :
       ExportErrorInfo(exports[e]) # Null <=> exports[e].status = "failed"

\* C11: a completed analysis has progress_percentage 100.
C11_CompletedProgressIs100 ==
  \A a \in DOMAIN analyses :
    analyses[a].status = "completed" => analyses[a].progress_percentage = 100

\* C12: while an analysis stays in processing its stored progress never
\* decreases and stays within 0..100.
C12_ProgressNeverDecreases ==
  [][\A a \in DOMAIN analyses \cap DOMAIN analyses' :
       (analyses[a].status = "processing" /\ analyses'[a].status = "processing")
         => /\ analyses'[a].progress_percentage >= analyses[a].progress_percentage
            /\ analyses'[a].progress_percentage \in 0..100]_vars

\* C13: an analysis that has left pending through its start has started_at, one
\* that is completed or failed has completed_at, neither is overwritten once
\* set, and completed_at >= started_at when both are set.
C13_TimestampsSetOnce ==
  [][\A a \in DOMAIN analyses' :
       /\ analyses'[a].status = "processing" => analyses'[a].started_at # Null
       /\ analyses'[a].status \in {"completed", "failed"} => analyses'[a].completed_at # Null
       /\ (analyses'[a].started_at # Null /\ analyses'[a].completed_at # Null)
            => analyses'[a].completed_at[1] >= analyses'[a].started_at[1]
       /\ (a \in DOMAIN analyses /\ analyses[a].started_at # Null)
            => analyses'[a].started_at = analyses[a].started_at
       /\ (a \in DOMAIN analyses /\ analyses[a].completed_at # Null)
            => analyses'[a].completed_at = analyses[a].completed_at]_vars

\* C14: when the engine run of an analysis (its completion callback) fails,
\* either a retry of the run is scheduled or the job is marked failed.
C14_FailedRunIsRetriedOrFails ==
  [][\A a \in DOMAIN analyses :
       CompletionCallback(a, FALSE)
         => (a \in analysisTimers' \/ analyses'[a].status = "failed")]_vars

\* C16: a failure of a background step is not handed to a caller and is
\* recorded on the stored job as status failed with error information.
C16_BackgroundFailureIsRecorded ==
  [][/\ \A a \in DOMAIN analyses :
          CompletionCallback(a, FALSE)
            => /\ returned'.success
               /\ analyses'[a].status = "failed"
               /\ analyses'[a].error_message # Null
     /\ \A e \in DOMAIN exports :
          ExportCompletionCallback(e, FALSE)
            => /\ returned'.success
               /\ exports'[e].status = "failed"
               /\ ExportErrorInfo(exports'[e]) # Null]_vars

\* The step in which createAnalysis returns for analysis a, and the step in
\* which createExport returns the id of export e.
CreateAnalysisReturns(a) == a \in awaitingTrigger /\ a \notin awaitingTrigger'
CreateExportReturnsId(e) ==
  e \in awaitingProcess /\ e \notin awaitingProcess' /\ returned' = Success(e)

C17_FilePathIffCompleted ==
  \A e \in DOMAIN exports :
    exports[e].file_path # Null <=> exports[e].status = "completed"

\* The completion callback of an export has run and stored its file.
C17_Witness ==
  \E e \in DOMAIN exports :
    /\ exports[e].status = "completed"
    /\ exports[e].file_path = Some(mockFilePath(e, exports[e].export_type))
    /\ e \notin exportTimers

\* The cancel request of the claims: the only way the code has to cancel an
\* analysis is a status write through updateAnalysis.
CancelUpdate == [status |-> "cancelled"]

\* C18: a cancel of an analysis that is completed, failed or cancelled returns
\* success and changes nothing, and cancelling twice leaves what cancelling
\* once leaves.
C18_CancelOnTerminalIsNoOp ==
  [][\A a \in DOMAIN analyses :
       /\ (analyses[a].status \in TerminalStatus /\ UpdateAnalysis(a, CancelUpdate, TRUE))
            => (analyses' = analyses /\ returned' = Success(0))
       /\ ApplyUpdate(ApplyUpdate(analyses, a, CancelUpdate), a, CancelUpdate)
            = ApplyUpdate(analyses, a, CancelUpdate)]_vars

\* C19 as stated: no operation deletes an analysis or an export; the id of a
\* job resolves to that job in every later state, video deletion included.
C19_JobsAreNeverDeleted ==
  [][/\ \A a \in DOMAIN analyses :
          a \in DOMAIN analyses' /\ analyses'[a].video_id = analyses[a].video_id
     /\ \A e \in DOMAIN exports :
          /\ e \in DOMAIN exports'
          /\ exports'[e].analysis_id = exports[e].analysis_id
          /\ exports'[e].export_type = exports[e].export_type]_vars

\* C19 as amended: an analysis is removed only with its video (the cascade of
\* deleteVideo, which removes every analysis of that video) or alone by
\* deleteAnalysis; an export is removed only with its analysis, and always
\* with it; every other step keeps every job, a job that stays keeps its
\* video, analysis and type, and the id of a removed job is never given to
\* another job.
C19_JobsRemovedOnlyByDelete ==
  [][/\ \A a \in DOMAIN analyses :
          IF a \in DOMAIN analyses'
            THEN analyses'[a].video_id = analyses[a].video_id
            ELSE \/ analyses[a].video_id \in DOMAIN videos \ DOMAIN videos'
                 \/ /\ videos' = videos
                    /\ DOMAIN analyses' = DOMAIN analyses \ {a}
     /\ \A v \in DOMAIN videos \ DOMAIN videos' :
          \A a \in DOMAIN analyses : analyses[a].video_id = v => a \notin DOMAIN analyses'
     /\ \A e \in DOMAIN exports :
          IF e \in DOMAIN exports'
            THEN /\ exports'[e].analysis_id = exports[e].analysis_id
                 /\ exports'[e].export_type = exports[e].export_type
                 /\ exports[e].analysis_id \in DOMAIN analyses'
            ELSE exports[e].analysis_id \in DOMAIN analyses \ DOMAIN analyses'
     /\ DOMAIN analyses' \ DOMAIN analyses \subseteq {nextAnalysisId}
     /\ DOMAIN exports' \ DOMAIN exports \subseteq {nextExportId}
     /\ nextAnalysisId' >= nextAnalysisId
     /\ nextExportId' >= nextExportId]_vars

\* A video deletion has removed one video's analysis and left the analysis of
\* the other video in place.
C19_Witness ==
  /\ \E a \in 1..(nextAnalysisId - 1) : a \notin DOMAIN analyses
  /\ \E v \in 1..(nextVideoId - 1) : v \notin DOMAIN videos
  /\ \E a \in DOMAIN analyses : analyses[a].video_id \in DOMAIN videos

-----------------------------------------------------------------------------
(* AnalysisResultsPage *)

\* What the page renders after the fetch: the error panel when the fetch threw
\* or returned nothing, the "Analysis In Progress" panel for every status other
\* than completed, and otherwise the results of the row.
AnalysisResultsPage(analysisId) ==
  LET fetched == getAnalysis(analysisId) IN
  IF fetched = Null
    THEN [view |-> "error_loading_analysis"]
    ELSE LET analysis == fetched[1] IN
         IF analysis.status # "completed"
           THEN [view |-> "analysis_in_progress"]
           ELSE [view |-> "results",
                 openstarlab_results |-> analysis.openstarlab_results,
                 ai_insights |-> analysis.ai_insights]

\* C20: the result is delivered only when the analysis is completed; for any
\* other status the client gets an indicator and no result, and the indicator
\* of a failed analysis differs from that of a pending or processing one.
C20_ResultOnlyWhenCompleted ==
  /\ \A a \in DOMAIN analyses :
       /\ AnalysisResultsPage(a).view = "results" <=> analyses[a].status = "completed"
       /\ analyses[a].status # "completed"
            => "openstarlab_results" \notin DOMAIN AnalysisResultsPage(a)
  /\ \A a, b \in DOMAIN analyses :
       (analyses[a].status \in {"pending", "processing"} /\ analyses[b].status = "failed")
         => AnalysisResultsPage(a) # AnalysisResultsPage(b)

\* C21: the backend is selected once and every AnalyticsService operation uses
\* it: in either mode createAnalysis, getAnalyses, getAnalysis and
\* updateAnalysis address the selected backend, so that the record created is
\* the record read and updated.
C21_OneBackendForAllOperations ==
  \A a \in DOMAIN analyses :
    /\ \A operation \in AnalyticsOperations : BackendUsed(operation) = SelectedBackend
    /\ getAnalysis(a) = Some(analyses[a])

-----------------------------------------------------------------------------
(* ExportService: queries *)

\* The empty string, an id that no row has.
EmptyId == 0

\* The arguments of getExports(analysisId?): none, the empty string, an id.
GetExportsInputs == {Null, Some(EmptyId)} \cup {Some(a) : a \in AnalysisIds}

\* `if (analysisId)`: undefined and the empty string are both falsy.
Truthy(analysisId) == analysisId # Null /\ analysisId # Some(EmptyId)

\* .order('created_at', { ascending: false }) over the rows with ids in `ids`.
RECURSIVE NewestFirst(_)
NewestFirst(ids) ==
  IF ids = {} THEN <<>>
  ELSE LET newest == CHOOSE e \in ids :
                       \A f \in ids : exports[e].created_at >= exports[f].created_at
       IN <<newest>> \o NewestFirst(ids \ {newest})

\* getExports(analysisId?): the ids of the rows returned, in order.  The
\* filter on analysis_id is added only for a truthy argument.
getExports(analysisId) ==
  NewestFirst(IF Truthy(analysisId)
                THEN {e \in DOMAIN exports : exports[e].analysis_id = analysisId[1]}
                ELSE DOMAIN exports)

\* C22: getExports(analysisId) returns exactly the exports whose analysis_id
\* equals analysisId, newest first by creation time; without an argument it
\* returns all exports, newest first.
C22_GetExportsByAnalysis ==
  \A analysisId \in GetExportsInputs :
    LET result == getExports(analysisId)
        wanted == IF analysisId = Null
                    THEN DOMAIN exports
                    ELSE {e \in DOMAIN exports : exports[e].analysis_id = analysisId[1]}
    IN /\ {result[i] : i \in DOMAIN result} = wanted
       /\ Len(result) = Cardinality(wanted)
       /\ \A i, j \in DOMAIN result :
            i < j => exports[result[i]].created_at >= exports[result[j]].created_at

\* A file as the upload feature describes it: MP4, MOV or AVI by one of the
\* four type strings, and at most 2 GB.
AtMost2GB(size) == size.gib < 2 \/ (size.gib = 2 /\ size.rest = 0)
ValidVideoFile(file) ==
  /\ file.type \in {"video/mp4", "video/mov", "video/avi", "video/quicktime"}
  /\ AtMost2GB(file.size)

\* C23: handleFileSelect accepts a file if and only if its type is one of the
\* four video types and its size is at most 2 GB; a refused file does not
\* become the selected file and sets the upload status to error, progress 0.
C23_FileAcceptedIffValid ==
  [][\A file \in Files :
       HandleFileSelect(file) =>
         IF ValidVideoFile(file)
           THEN selectedFile' = Some(file)
           ELSE /\ selectedFile' = selectedFile
                /\ selectedFile' # Some(file)
                /\ uploadProgress' = [progress |-> 0, status |-> "error"]]_vars

\* A file of exactly 2 GB is the selected file and a later file was refused.
C23_Witness ==
  /\ selectedFile # Null
  /\ selectedFile[1].size = Bytes(2, 0)
  /\ formData.title = "match"
  /\ uploadProgress = [progress |-> 0, status |-> "error"]
  /\ submits = <<>>

\* C24: two addManualAnnotation calls on the same analysis that both returned
\* success have both left their annotation in manual_annotations, however
\* their reads and writes interleaved.
C24_NoAnnotationLost ==
  \A c, d \in DOMAIN annotationCalls :
    ( /\ c # d
      /\ annotationCalls[c].analysisId = annotationCalls[d].analysisId
      /\ annotationCalls[c].pc = "succeeded"
      /\ annotationCalls[d].pc = "succeeded"
      /\ annotationCalls[c].analysisId \in DOMAIN analyses )
    => LET list == analyses[annotationCalls[c].analysisId].manual_annotations
       IN {c, d} \subseteq {list[i] : i \in DOMAIN list}

\* C25: createAnalysis starts processing only for a record it inserted.  When
\* the insert returns an error the call returns success: false, schedules no
\* timer and writes no status; when the insert succeeds the call schedules one
\* completion timer for the new id, at the moment it returns that id, and no
\* id gets a timer twice.
C25_ProcessingOnlyForInsertedRecord ==
  [][/\ \A v \in VideoIds, ok \in BOOLEAN :
          CreateAnalysis(v, ok) =>
            IF ok /\ v \in DOMAIN videos
              THEN /\ DOMAIN analyses' = DOMAIN analyses \cup {nextAnalysisId}
                   /\ awaitingTrigger' = awaitingTrigger \cup {nextAnalysisId}
              ELSE /\ returned' = Failure
                   /\ UNCHANGED <<analyses, analysisTimers, awaitingTrigger>>
     /\ \A a \in AnalysisIds :
          /\ a \in awaitingTrigger' \ awaitingTrigger
               => a \in DOMAIN analyses' \ DOMAIN analyses
          /\ a \in analysisTimers' \ analysisTimers
               => /\ a \in awaitingTrigger \ awaitingTrigger'
                  /\ a \in DOMAIN analyses
                  /\ analysisTimers' = analysisTimers \cup {a}
                  /\ returned' = Success(a)
          /\ a \in awaitingTrigger \ awaitingTrigger'
               => a \in analysisTimers' \ analysisTimers]_vars

\* A createAnalysis has just failed while the timer of an earlier analysis is
\* scheduled: no upload and no export can have been the failing step.
C25_Witness ==
  /\ returned = Failure
  /\ nextVideoId > MaxVideos
  /\ exports = <<>>
  /\ nextAnalysisId = 2
  /\ analysisTimers = {1}
  /\ awaitingTrigger = {}

\* The required fields of the upload form are not all there.
RequiredFieldsMissing ==
  selectedFile = Null \/ formData.title = "" \/ formData.analysisIntent = ""

\* C26: in handleSubmit an analysis is created only after uploadVideo has
\* returned success with a videoId, for that video, and at most once per
\* submit; when required fields are missing or the upload fails no analysis
\* is created and the selected file and the form fields are kept.
C26_AnalysisOnlyAfterUpload ==
  [][/\ \A a \in DOMAIN analyses' \ DOMAIN analyses :
          /\ DOMAIN analyses' = DOMAIN analyses \cup {a}
          /\ \E s \in DOMAIN submits :
               /\ submits[s].pc = "creating"
               /\ submits[s].videoId \in DOMAIN videos
               /\ analyses'[a].video_id = submits[s].videoId
               /\ submits'[s].pc = "triggering"
               /\ submits'[s].analysisId = a
     /\ \A s \in DOMAIN submits' :
          IF s \in DOMAIN submits
            THEN /\ (submits'[s].pc = "uploading" => submits[s].pc = "uploading")
                 /\ (submits'[s].pc = "creating" /\ submits[s].pc # "creating")
                      => /\ submits[s].pc = "uploading"
                         /\ returned' = Success(submits'[s].videoId)
                         /\ submits'[s].videoId \in DOMAIN videos' \ DOMAIN videos
                 /\ (submits'[s].pc = "upload_failed" /\ submits[s].pc # "upload_failed")
                      => /\ submits[s].pc = "uploading"
                         /\ returned' = Failure
                         /\ UNCHANGED <<analyses, videos, selectedFile, formData>>
                 /\ (submits[s].pc = "upload_failed" => submits'[s] = submits[s])
            ELSE submits'[s].pc = "uploading" /\ ~RequiredFieldsMissing
     /\ (HandleSubmit /\ RequiredFieldsMissing)
          => UNCHANGED <<analyses, videos, selectedFile, formData, submits>>]_vars

\* One submit went through to the reset of the form with its analysis created;
\* a later one failed in the upload and the form still holds what was entered.
C26_Witness ==
  \E s, t \in DOMAIN submits :
    /\ submits[s].pc = "reset"
    /\ submits[s].analysisId \in DOMAIN analyses
    /\ analyses[submits[s].analysisId].video_id = submits[s].videoId
    /\ submits[t].pc = "upload_failed"
    /\ ~RequiredFieldsMissing

\* C27: downloadExport returns success with a download URL only for an export
\* whose status is completed and whose file_path is set; for an export that
\* is pending, generating or failed it returns success: false and no URL,
\* wherever the background completion write falls between its steps.
C27_DownloadOnlyWhenCompleted ==
  [][\A e \in ExportIds :
       /\ \A ok \in BOOLEAN :
            (DownloadExport(e, ok) /\ e \in DOMAIN exports
               /\ exports[e].status \in {"pending", "generating", "failed"})
              => (returned' = Failure /\ downloads' = downloads)
       /\ (e \in DOMAIN downloads' /\ downloads'[e].pc = "signing")
            => /\ e \in DOMAIN exports'
               /\ exports'[e].status = "completed"
               /\ exports'[e].file_path # Null
               /\ downloads'[e].file_path = exports'[e].file_path
       /\ \A signed \in BOOLEAN :
            DownloadSigned(e, signed)
              => /\ returned'.success <=> signed
                 /\ returned'.success
                      => /\ downloads'[e].pc = "url"
                         /\ exports'[e].status = "completed"
                         /\ exports'[e].file_path = downloads'[e].file_path
                         /\ exports'[e].file_path # Null
       /\ (e \in DOMAIN downloads' /\ downloads'[e].pc = "url")
            => (e \in DOMAIN exports' /\ exports'[e].status = "completed")]_vars

\* A download of a completed export has returned its URL.
C27_Witness ==
  \E e \in DOMAIN downloads :
    /\ downloads[e].pc = "url"
    /\ returned = Success(e)
    /\ exports[e].status = "completed"
    /\ downloads[e].file_path = Some(mockFilePath(e, exports[e].export_type))

\* The three items of the session are absent from local storage and
\* getSession() is null.
SessionCleared(storage) ==
  /\ storage["access_token"] = Null
  /\ storage["refresh_token"] = Null
  /\ storage["user"] = Null
  /\ getSession(storage) = Null

\* Call c returns in this step.
AuthCallReturns(c) ==
  /\ c \in DOMAIN authCalls'
  /\ authCalls'[c].pc = "returned"
  /\ IF c \in DOMAIN authCalls THEN authCalls[c].pc = "fetching" ELSE TRUE

\* C28: when logout() returns, access_token, refresh_token and user are absent
\* from local storage and getSession() is null, whatever the logout request
\* did; the same holds when refreshToken() returns after a failed refresh and
\* when getCurrentUser() returns after a failed fetch of the user.
C28_StorageClearedAfterLogout ==
  [][\A c \in 1..2 * MaxAuthCalls :
       (AuthCallReturns(c)
          /\ (authCalls'[c].op = "logout" \/ authCalls'[c].failed))
         => SessionCleared(localStorage')]_vars

\* C29: a protected page is on the screen only while the auth state has a
\* user and loading is false; whatever signIn and signOut calls came before,
\* a protected path without a user shows the redirect to /login, which leads
\* there, and /login or /signup with a user shows the redirect to /dashboard,
\* which leads there.
C29_ProtectedPagesNeedUser ==
  [][/\ (rendered'.kind = "page" /\ rendered'.path \in ProtectedPaths)
          => (user' # Null /\ ~loading')
     /\ (user' = Null /\ ~loading' /\ location' \in ProtectedPaths)
          => rendered' = Navigate("/login")
     /\ (user' # Null /\ ~loading' /\ location' \in PublicPaths)
          => rendered' = Navigate("/dashboard")
     /\ (Redirect /\ user = Null /\ location \in ProtectedPaths)
          => location' = "/login"
     /\ (Redirect /\ user # Null /\ location \in PublicPaths)
          => location' = "/dashboard"]_vars

\* After a sign-in the visitor is at /login and the redirect to /dashboard is on
\* the screen.
C29_Witness ==
  /\ mounted
  /\ user # Null
  /\ location = "/login"
  /\ rendered = Navigate("/dashboard")

====
